---------------------------- MODULE Spec2Model ----------------------------
(***************************************************************************)
(* Model of server.js: the JSON document store (animes, per-anime episode  *)
(* files, trending, schedule) and the video route                          *)
(*   GET /api/animes/:id/episodes/:episode/server/:server                  *)
(* with its Range handling and the read stream it pipes to the response.   *)
(*                                                                         *)
(* Strings the code inspects character by character (the Range header, the *)
(* route parameters, the video source) are sequences of one-character      *)
(* strings.  A JavaScript number is a record [nan, v]: NaN is              *)
(* [nan |-> TRUE, v |-> 0].                                                *)
(*                                                                         *)
(* Node runs a route handler to completion before any other callback, so   *)
(* a handler is one action; the read stream's callbacks are later actions. *)
(***************************************************************************)
EXTENDS Integers, Sequences, FiniteSets, TLC

(***************************************************************************)
(* Bounds of the model.                                                    *)
(***************************************************************************)
MaxRangeLen == 3      \* characters of a Range header after an optional "bytes="
MaxFileSize == 3      \* bytes in the video file on disk
MaxRecords == 2       \* anime and episode records in the document store
HighWaterMark == 2    \* bytes a read stream reads per chunk (65536 in Node)
MaxStored == 3        \* anime and episode records when episode routes are checked
MaxIdent == 2         \* the greatest id of an anime or schedule record

(***************************************************************************)
(* JavaScript numbers and strings.                                         *)
(***************************************************************************)
NaN == [nan |-> TRUE, v |-> 0]
Num(n) == [nan |-> FALSE, v |-> n]

\* a === b on numbers: NaN equals nothing
StrictEq(a, b) == ~a.nan /\ ~b.nan /\ a.v = b.v

\* a > b on numbers: any comparison with NaN is false
Greater(a, b) == ~a.nan /\ ~b.nan /\ a.v > b.v

\* a - b + 1 style arithmetic: NaN is contagious
Minus(a, b) == IF a.nan \/ b.nan THEN NaN ELSE Num(a.v - b.v)
Plus(a, b) == IF a.nan \/ b.nan THEN NaN ELSE Num(a.v + b.v)

DigitChars == <<"0", "1", "2", "3", "4", "5", "6", "7", "8", "9">>
IsDigit(c) == \E i \in 1..10 : DigitChars[i] = c
DigitVal(c) == (CHOOSE i \in 1..10 : DigitChars[i] = c) - 1
IsSpace(c) == c = " "

Min(a, b) == IF a < b THEN a ELSE b
Max(a, b) == IF a > b THEN a ELSE b

Tail2(s, n) == SubSeq(s, n + 1, Len(s))

RECURSIVE SkipSpaces(_)
SkipSpaces(s) == IF s # <<>> /\ IsSpace(Head(s)) THEN SkipSpaces(Tail(s)) ELSE s

\* value of the longest prefix of digits of s, continuing from acc
RECURSIVE DigitsValue(_, _)
DigitsValue(s, acc) ==
    IF s # <<>> /\ IsDigit(Head(s))
    THEN DigitsValue(Tail(s), acc * 10 + DigitVal(Head(s)))
    ELSE acc

\* parseInt(s, 10): leading white space skipped, an optional sign, then the
\* longest prefix of digits; NaN when there is no digit there.  Whatever
\* follows the digits is ignored.
ParseInt(s) ==
    LET t == SkipSpaces(s)
        neg == t # <<>> /\ Head(t) = "-"
        signed == t # <<>> /\ Head(t) \in {"-", "+"}
        d == IF signed THEN Tail(t) ELSE t
    IN IF d = <<>> \/ ~IsDigit(Head(d)) THEN NaN
       ELSE Num(IF neg THEN 0 - DigitsValue(d, 0) ELSE DigitsValue(d, 0))

StartsWith(s, p) == Len(s) >= Len(p) /\ SubSeq(s, 1, Len(p)) = p

\* s.replace(/pat/, ''): the first occurrence of pat, wherever it is, removed
RECURSIVE RemoveFirst(_, _)
RemoveFirst(s, pat) ==
    IF Len(s) < Len(pat) THEN s
    ELSE IF StartsWith(s, pat) THEN Tail2(s, Len(pat))
    ELSE <<Head(s)>> \o RemoveFirst(Tail(s), pat)

\* s.split(sep): always at least one part, empty parts kept
RECURSIVE SplitAcc(_, _, _)
SplitAcc(s, sep, cur) ==
    IF s = <<>> THEN <<cur>>
    ELSE IF Head(s) = sep THEN <<cur>> \o SplitAcc(Tail(s), sep, <<>>)
    ELSE SplitAcc(Tail(s), sep, Append(cur, Head(s)))

Split(s, sep) == SplitAcc(s, sep, <<>>)

\* String(n) for n >= 0
RECURSIVE ToDecimal(_)
ToDecimal(n) ==
    IF n < 10 THEN <<DigitChars[n + 1]>>
    ELSE ToDecimal(n \div 10) \o <<DigitChars[(n % 10) + 1]>>


\* `${n}` for a number
NumToString(n) ==
    IF n.nan THEN <<"N", "a", "N">>
    ELSE IF n.v < 0 THEN <<"-">> \o ToDecimal(0 - n.v)
    ELSE ToDecimal(n.v)

(***************************************************************************)
(* The values requests are drawn from.                                     *)
(***************************************************************************)
\* route parameters :id, :episode, :server as they appear in the URL
ParamStrings == {<<"1">>, <<"2">>, <<"x">>}

\* req.body.episodeNumber of POST /api/animes/:id/episodes
EpisodeNumbers == {<<"1">>, <<"2">>}

RangeChars == {"0", "1", "-", "x"}
BytesPrefix == <<"b", "y", "t", "e", "s", "=">>

SeqsUpTo(S, n) == UNION {[1..k -> S] : k \in 0..n}

\* the Range header: absent, or any short string with or without "bytes="
NoHeader == [present |-> FALSE, value |-> <<>>]
RangeHeaders ==
    {NoHeader} \cup
    {[present |-> TRUE, value |-> pre \o body] :
        pre \in {<<>>, BytesPrefix}, body \in SeqsUpTo(RangeChars, MaxRangeLen)}

\* video sources an episode can name
RemoteUrl == <<"h", "t", "t", "p", "s", ":", "/", "/", "e", "/", "v">>
LocalVideo == <<"v", ".", "m", "p", "4">>
MissingVideo == <<"g", ".", "m", "p", "4">>
HttpNamedVideo == <<"h", "t", "t", "p", ".", "m", "p", "4">>
DataDirName == <<"d", "a", "t", "a">>
EmptyString == <<>>

Server1 == <<"s", "e", "r", "v", "e", "r", "1">>
Server2 == <<"s", "e", "r", "v", "e", "r", "2">>

\* req.body.sources of POST /api/animes/:id/episodes; has = FALSE: no such field
NoSources == [has |-> FALSE, map |-> <<>>]
Sources(f) == [has |-> TRUE, map |-> f]
SourcesChoices ==
    { NoSources,
      Sources((Server1 :> RemoteUrl) @@ (Server2 :> LocalVideo)),
      Sources((Server1 :> MissingVideo) @@ (Server2 :> EmptyString)),
      Sources((Server1 :> DataDirName) @@ (Server2 :> HttpNamedVideo)) }

(***************************************************************************)
(* State.                                                                  *)
(***************************************************************************)
VARIABLES
    animes,        \* data/animes.json: the sequence of anime records
    episodeFiles,  \* data/episodes/<name>.json: file name |-> episode list
    trending,      \* data/trending.json
    schedule,      \* data/schedule.json
    disk,          \* files and directories below __dirname: path |-> entry
    phase,         \* "idle", "streaming", "done", "hung" or "aborted"
    req,           \* the request being served
    res,           \* its response
    stream,        \* the fs.ReadStream piped into the response
    fsCalls,       \* fs calls the video route made on the video path
    before         \* the document store as it was when the request arrived

vars == <<animes, episodeFiles, trending, schedule, disk, phase, req, res,
          stream, fsCalls, before>>

Catalog == [animes |-> animes, episodeFiles |-> episodeFiles,
            trending |-> trending, schedule |-> schedule]

catalogVars == <<animes, episodeFiles, trending, schedule>>

(***************************************************************************)
(* The disk below __dirname.                                               *)
(***************************************************************************)
Dirname == <<"/", "a", "p", "p">>

\* path.join(__dirname, p) for a relative p without . or .. segments
PathJoin(p) == Dirname \o <<"/">> \o p

\* the bytes of a video file of n bytes: every position holds another byte
FileBytes(n) == [i \in 1..n |-> 100 + i]

\* st_size of a directory (4096 on most file systems)
DirStatSize == 4

\* a bug: the existence check always succeeds
ExistsSyncAlways(path) == TRUE

\* fs.existsSync(path)
ExistsSync(path) == path \in DOMAIN disk

\* fs.statSync(path) throws (ENOENT) when nothing is there
StatThrows(path) == path \notin DOMAIN disk

\* fs.statSync(path).size
StatSize(path) ==
    IF disk[path].kind = "dir" THEN DirStatSize ELSE Len(disk[path].bytes)

(***************************************************************************)
(* The document store helpers.                                             *)
(***************************************************************************)
\* getEpisodesFile(animeId): the name `${animeId}.json` below data/episodes
GetEpisodesFile(animeId) == NumToString(animeId) \o <<".", "j", "s", "o", "n">>

\* readEpisodes(animeId): the list it returns
ReadEpisodes(animeId) ==
    IF GetEpisodesFile(animeId) \in DOMAIN episodeFiles
    THEN episodeFiles[GetEpisodesFile(animeId)]
    ELSE <<>>

\* readEpisodes(animeId): the episode files it leaves on disk; a file that
\* does not exist is written with an empty list
EpisodeFilesAfterRead(animeId) ==
    IF GetEpisodesFile(animeId) \in DOMAIN episodeFiles
    THEN episodeFiles
    ELSE episodeFiles @@ (GetEpisodesFile(animeId) :> <<>>)

\* writeEpisodes(animeId, episodes) after readEpisodes(animeId)
WriteEpisodes(animeId, episodes) ==
    [f \in DOMAIN episodeFiles \cup {GetEpisodesFile(animeId)} |->
        IF f = GetEpisodesFile(animeId) THEN episodes ELSE episodeFiles[f]]

\* list.findIndex(x => x.<field> === n), 1-based; 0 stands for -1
FindAnimeIndex(list, n) ==
    IF \E i \in 1..Len(list) : StrictEq(Num(list[i].id), n)
    THEN CHOOSE i \in 1..Len(list) :
            /\ StrictEq(Num(list[i].id), n)
            /\ \A j \in 1..(i - 1) : ~StrictEq(Num(list[j].id), n)
    ELSE 0

\* episodes.find(ep => ep.episodeNumber === n): its index, 0 when undefined
FindEpisodeIndex(list, n) ==
    IF \E i \in 1..Len(list) : StrictEq(list[i].episodeNumber, n)
    THEN CHOOSE i \in 1..Len(list) :
            /\ StrictEq(list[i].episodeNumber, n)
            /\ \A j \in 1..(i - 1) : ~StrictEq(list[j].episodeNumber, n)
    ELSE 0

\* Math.max(...animes.map(a => a.id))
RECURSIVE MaxId(_)
MaxId(list) ==
    IF Len(list) = 1 THEN list[1].id ELSE Max(list[1].id, MaxId(Tail(list)))

\* the records in the store: animes plus the episodes of every episode file
RECURSIVE CountEpisodes(_)
CountEpisodes(names) ==
    IF names = {} THEN 0
    ELSE LET f == CHOOSE x \in names : TRUE
         IN Len(episodeFiles[f]) + CountEpisodes(names \ {f})

StoredRecords == Len(animes) + CountEpisodes(DOMAIN episodeFiles)

(***************************************************************************)
(* Responses.                                                              *)
(***************************************************************************)
NoRes == [status |-> 0, statusWrites |-> 0, headers |-> <<>>, body |-> <<>>,
          ended |-> FALSE, error |-> ""]

\* res.status(code).json({ error: msg })
JsonError(code, msg) ==
    [status |-> code, statusWrites |-> 1,
     headers |-> ("Content-Type" :> "application/json"),
     body |-> <<>>, ended |-> TRUE, error |-> msg]

\* res.status(code).json(value) / res.json(value)
JsonOk(code) ==
    [status |-> code, statusWrites |-> 1,
     headers |-> ("Content-Type" :> "application/json"),
     body |-> <<>>, ended |-> TRUE, error |-> ""]

\* res.redirect(url): 302 Found with a Location header
Redirect(url) ==
    [status |-> 302, statusWrites |-> 1, headers |-> ("Location" :> url),
     body |-> <<>>, ended |-> TRUE, error |-> ""]

\* an exception thrown by the handler before any header is sent: Express's
\* default error handler answers 500
ExpressError ==
    [status |-> 500, statusWrites |-> 1,
     headers |-> ("Content-Type" :> "text/html"),
     body |-> <<>>, ended |-> TRUE, error |-> "Internal Server Error"]

\* res.writeHead(code, headers): the head is sent, the body is still to come
WriteHead(code, headers) ==
    [status |-> code, statusWrites |-> 1, headers |-> headers,
     body |-> <<>>, ended |-> FALSE, error |-> ""]

NoStream == [state |-> "none", path |-> <<>>, pos |-> 0, hasEnd |-> FALSE, end |-> 0]

\* a request: its route and parameters, whether it carried a Range header,
\* the header once the handler has read req.headers.range, and the video
\* source once the handler has looked it up
IdleReq == [route |-> "none", id |-> <<>>, episode |-> <<>>, server |-> <<>>,
            hasRange |-> FALSE, rangeRead |-> FALSE, range |-> NoHeader,
            resolved |-> FALSE, videoPath |-> <<>>]

(***************************************************************************)
(* GET /api/animes/:id/episodes/:episode/server/:server                    *)
(***************************************************************************)
\* `server${serverNumber}`
ServerKey(serverNumber) ==
    <<"s", "e", "r", "v", "e", "r">> \o NumToString(serverNumber)

\* !episode.sources || !episode.sources[serverKey]
SourceMissing(episode, serverKey) ==
    \/ ~episode.sources.has
    \/ serverKey \notin DOMAIN episode.sources.map
    \/ episode.sources.map[serverKey] = EmptyString

\* a bug: only https sources count as remote
IsRemoteHttpsOnly(videoPath) ==
    StartsWith(videoPath, <<"h", "t", "t", "p", "s">>)

\* videoPath.startsWith('http')
IsRemote(videoPath) == StartsWith(videoPath, <<"h", "t", "t", "p">>)

\* if (range): an absent header and an empty one are both falsy
RangeTruthy(hdr) == hdr.present /\ hdr.value # <<>>

\* range.replace(/bytes=/, '').split('-')
RangeParts(range) == Split(RemoveFirst(range, BytesPrefix), "-")

\* parseInt(parts[0], 10)
RangeStart(parts) == ParseInt(parts[1])

\* a bug: an open range ends at fileSize, one past the last byte
RangeEndOffByOne(parts, fileSize) ==
    IF Len(parts) >= 2 /\ parts[2] # <<>>
    THEN ParseInt(parts[2])
    ELSE Num(fileSize)

\* parts[1] ? parseInt(parts[1], 10) : fileSize - 1
RangeEnd(parts, fileSize) ==
    IF Len(parts) >= 2 /\ parts[2] # <<>>
    THEN ParseInt(parts[2])
    ELSE Num(fileSize - 1)

\* (end - start) + 1
ChunkSize(start, end) == Plus(Minus(end, start), Num(1))

\* fs.createReadStream(path, { start, end }) checks its options before it
\* opens anything: each must be an integer >= 0, and start <= end; otherwise
\* it throws (ERR_OUT_OF_RANGE)
CreateReadStreamThrows(start, end) ==
    \/ start.nan \/ end.nan
    \/ start.v < 0 \/ end.v < 0
    \/ start.v > end.v

RangeStream(localPath, start, end) ==
    [state |-> "flowing", path |-> localPath, pos |-> start.v,
     hasEnd |-> TRUE, end |-> end.v]

\* a bug: the full stream skips the first byte
FullStreamSkipsFirst(localPath) ==
    [state |-> "flowing", path |-> localPath, pos |-> 1,
     hasEnd |-> FALSE, end |-> 0]

\* fs.createReadStream(path): from byte 0 to the end of the file
FullStream(localPath) ==
    [state |-> "flowing", path |-> localPath, pos |-> 0,
     hasEnd |-> FALSE, end |-> 0]

\* the 206 head of the range branch
PartialHead(start, end, fileSize) ==
    WriteHead(206,
        ("Content-Range" :> [unit |-> "bytes", start |-> start, end |-> end,
                             size |-> fileSize]) @@
        ("Accept-Ranges" :> "bytes") @@
        ("Content-Length" :> ChunkSize(start, end)) @@
        ("Content-Type" :> "video/mp4"))

\* the 200 head of the branch without a range
FullHead(fileSize) ==
    WriteHead(200,
        ("Content-Length" :> Num(fileSize)) @@
        ("Content-Type" :> "video/mp4"))

\* the range branch: what the handler has done when it returns
RangeBranch(localPath, fileSize, range) ==
    LET parts == RangeParts(range)
        start == RangeStart(parts)
        end == RangeEnd(parts, fileSize)
    IN IF CreateReadStreamThrows(start, end)
       THEN [res |-> ExpressError, stream |-> NoStream]
       ELSE [res |-> PartialHead(start, end, fileSize),
             stream |-> RangeStream(localPath, start, end)]

\* the branch without a range
FullBranch(localPath, fileSize) ==
    [res |-> FullHead(fileSize), stream |-> FullStream(localPath)]

\* the else branch of the source kind test: serve the local file
ServeLocal(videoPath, hdr) ==
    LET localPath == PathJoin(videoPath)
    IN IF ~ExistsSync(localPath)
       THEN [res |-> JsonError(404, "Video file not found"), stream |-> NoStream,
             fsCalls |-> {"existsSync"}, rangeRead |-> FALSE]
       ELSE IF StatThrows(localPath)
       THEN [res |-> ExpressError, stream |-> NoStream,
             fsCalls |-> {"existsSync", "statSync"}, rangeRead |-> FALSE]
       ELSE LET fileSize == StatSize(localPath)
                out == IF RangeTruthy(hdr)
                       THEN RangeBranch(localPath, fileSize, hdr.value)
                       ELSE FullBranch(localPath, fileSize)
            IN [res |-> out.res, stream |-> out.stream,
                fsCalls |-> {"existsSync", "statSync", "createReadStream"},
                rangeRead |-> TRUE]

\* the handler from the episode lookup on
ServeVideo(episodes, episodeNumber, serverNumber, hdr) ==
    LET idx == FindEpisodeIndex(episodes, episodeNumber)
        serverKey == ServerKey(serverNumber)
        none == [stream |-> NoStream, fsCalls |-> {}, rangeRead |-> FALSE]
        unresolved == [resolved |-> FALSE, videoPath |-> <<>>]
    IN IF idx = 0
       THEN [res |-> JsonError(404, "Episode not found")] @@ none @@ unresolved
       ELSE IF SourceMissing(episodes[idx], serverKey)
       THEN [res |-> JsonError(404, "Video source not found")] @@ none
            @@ unresolved
       ELSE LET videoPath == episodes[idx].sources.map[serverKey]
                resolved == [resolved |-> TRUE, videoPath |-> videoPath]
            IN IF IsRemote(videoPath)
               THEN [res |-> Redirect(videoPath)] @@ none @@ resolved
               ELSE ServeLocal(videoPath, hdr) @@ resolved

VideoRoute(idParam, episodeParam, serverParam, hdr) ==
    LET animeId == ParseInt(idParam)
        episodeNumber == ParseInt(episodeParam)
        serverNumber == ParseInt(serverParam)
    IN /\ phase = "idle"
       /\ before' = Catalog
       /\ episodeFiles' = EpisodeFilesAfterRead(animeId)
       /\ \E out \in {ServeVideo(ReadEpisodes(animeId), episodeNumber,
                                 serverNumber, hdr)} :
            /\ req' = [route |-> "video", id |-> idParam,
                       episode |-> episodeParam, server |-> serverParam,
                       hasRange |-> hdr.present, rangeRead |-> out.rangeRead,
                       range |-> IF out.rangeRead THEN hdr ELSE NoHeader,
                       resolved |-> out.resolved, videoPath |-> out.videoPath]
            /\ res' = out.res
            /\ stream' = out.stream
            /\ fsCalls' = out.fsCalls
            /\ phase' = IF out.stream.state = "flowing" THEN "streaming"
                        ELSE "done"
       /\ UNCHANGED <<animes, trending, schedule, disk>>

\* The Range headers a request with these parameters is tried with.  A
\* handler that returns before it reads req.headers.range does the same for
\* every header, and req records only whether there was one: an absent
\* header and one present header stand for all of them there.
HeadersFor(idParam, episodeParam, serverParam) ==
    IF ServeVideo(ReadEpisodes(ParseInt(idParam)), ParseInt(episodeParam),
                  ParseInt(serverParam), NoHeader).rangeRead
    THEN RangeHeaders
    ELSE {NoHeader, [present |-> TRUE, value |-> BytesPrefix \o <<"0", "-">>]}

\* a request to the video route arrives and its handler runs
VideoRequest ==
    /\ phase = "idle"
    /\ \E idParam \in ParamStrings, episodeParam \in ParamStrings,
          serverParam \in ParamStrings :
            \E hdr \in HeadersFor(idParam, episodeParam, serverParam) :
                VideoRoute(idParam, episodeParam, serverParam, hdr)

(***************************************************************************)
(* The read stream piped into the response: file.pipe(res).                *)
(***************************************************************************)
\* bytes the next fs.read of the stream asks for
ReadLength(st) ==
    IF st.hasEnd THEN Min(st.end - st.pos + 1, HighWaterMark) ELSE HighWaterMark

\* bytes of the file from position pos on, at most n of them
BytesAt(bytes, pos, n) == SubSeq(bytes, pos + 1, Min(pos + n, Len(bytes)))

\* a 'data' event: the chunk read is written to the response
StreamData ==
    /\ phase = "streaming"
    /\ disk[stream.path].kind = "file"
    /\ LET chunk == BytesAt(disk[stream.path].bytes, stream.pos, ReadLength(stream))
       IN /\ ReadLength(stream) > 0
          /\ chunk # <<>>
          /\ res' = [res EXCEPT !.body = @ \o chunk]
          /\ stream' = [stream EXCEPT !.pos = @ + Len(chunk)]
    /\ UNCHANGED <<catalogVars, disk, phase, req, fsCalls, before>>

\* the 'end' event: nothing is left to read in the window or in the file;
\* pipe ends the response and the stream closes its descriptor
StreamEnd ==
    /\ phase = "streaming"
    /\ disk[stream.path].kind = "file"
    /\ \/ ReadLength(stream) <= 0
       \/ BytesAt(disk[stream.path].bytes, stream.pos, ReadLength(stream)) = <<>>
    /\ res' = [res EXCEPT !.ended = TRUE]
    /\ stream' = [stream EXCEPT !.state = "closed"]
    /\ phase' = "done"
    /\ UNCHANGED <<catalogVars, disk, req, fsCalls, before>>

\* reading a directory fails (EISDIR): the stream closes its descriptor and
\* emits 'error', which has no listener, so the exception is uncaught; the
\* uncaughtException handler logs it and the response is never ended
StreamError ==
    /\ phase = "streaming"
    /\ disk[stream.path].kind = "dir"
    /\ stream' = [stream EXCEPT !.state = "errored"]
    /\ phase' = "hung"
    /\ UNCHANGED <<catalogVars, disk, req, res, fsCalls, before>>

\* the client goes away while the file is streamed: the response emits
\* 'close', pipe's listener for it unpipes the source and the source stops
\* flowing.  Nothing destroys the read stream (the handler registers no
\* 'close' or 'error' listener), so its descriptor stays open; the model
\* follows the request no further
ClientDisconnect ==
    /\ phase = "streaming"
    /\ stream' = [stream EXCEPT !.state = "paused"]
    /\ phase' = "aborted"
    /\ UNCHANGED <<catalogVars, disk, req, res, fsCalls, before>>

(***************************************************************************)
(* The routes that write the document store.  Every handler reads and      *)
(* writes the store files with synchronous fs calls only, and Node runs a  *)
(* handler to its end before any other: a request is one step.             *)
(***************************************************************************)
OtherReq(route, idParam) ==
    [route |-> route, id |-> idParam, episode |-> <<>>, server |-> <<>>,
     hasRange |-> FALSE, rangeRead |-> FALSE, range |-> NoHeader,
     resolved |-> FALSE, videoPath |-> <<>>]

\* a request to a store route: its route, :id and the number its body names
StoreReq(route, idParam, number) ==
    [OtherReq(route, idParam) EXCEPT !.episode = number]

StoreFiles == {"animes", "episodes", "trending", "schedule"}

\* the store files fs.writeFileSync cannot write while a request is handled
\* (a full disk, a read-only file): none, or one of them
FaultSets == {{}} \cup {{f} : f \in StoreFiles}

\* what a handler leaves: its response and the four parts of the store
Outcome(r, a, e, t, s) ==
    [res |-> r, animes |-> a, episodeFiles |-> e, trending |-> t,
     schedule |-> s]

\* a handler that returns before it writes anything
Unchanged(r) == Outcome(r, animes, episodeFiles, trending, schedule)

\* the content of a store file after write<File>(new): the write helpers
\* catch the exception of a failing write and return false
Written(file, fails, old, new) == IF file \in fails THEN old ELSE new

\* res.status(code).json(value), the value kept as the body
JsonBody(code, value) == [JsonOk(code) EXCEPT !.body = <<value>>]

\* a bug: the handler works on a list that misses what was stored since
\* start-up
ReadAnimesStale == <<>>

\* readAnimes()
ReadAnimes == animes

\* list.indexOf(n), 1-based; 0 stands for -1
IndexOf(list, n) ==
    IF \E i \in 1..Len(list) : StrictEq(Num(list[i]), n)
    THEN CHOOSE i \in 1..Len(list) :
            /\ StrictEq(Num(list[i]), n)
            /\ \A j \in 1..(i - 1) : ~StrictEq(Num(list[j]), n)
    ELSE 0

\* list.splice(i, 1)
Splice(list, i) == SubSeq(list, 1, i - 1) \o SubSeq(list, i + 1, Len(list))

\* bodies of POST /api/animes and PUT /api/animes/:id: with or without an id
\* field, with isTrending true or false, without an episodes field
AnimeBodies == [hasId : BOOLEAN, id : {1}, isTrending : BOOLEAN]

\* POST /api/animes.  The record keeps the fields the routes modelled here
\* read; episodes = 0 stands for a record without episodes (every reader
\* takes `episodes || 0`).
PostAnime(body, fails) ==
    LET list == ReadAnimes
        newId == IF Len(list) > 0 THEN MaxId(list) + 1 ELSE 1
        newAnime == [id |-> IF body.hasId THEN body.id ELSE newId,
                     isTrending |-> body.isTrending, episodes |-> 0,
                     currentEpisode |-> 0]
        pushed == [trending EXCEPT !.manualTrending = Append(@, newId)]
    IN IF "animes" \in fails
       THEN Unchanged(JsonError(500, "Failed to create anime"))
       ELSE Outcome(JsonBody(201, newAnime), Append(list, newAnime),
                    episodeFiles,
                    IF /\ newAnime.isTrending
                       /\ trending.mode = "manual"
                       /\ IndexOf(trending.manualTrending, Num(newId)) = 0
                    THEN Written("trending", fails, trending, pushed)
                    ELSE trending,
                    schedule)

\* PUT /api/animes/:id
PutAnime(idParam, body, fails) ==
    LET animeId == ParseInt(idParam)
        list == ReadAnimes
        animeIndex == FindAnimeIndex(list, animeId)
        updated == [id |-> animeId.v, isTrending |-> body.isTrending,
                    episodes |-> 0,
                    currentEpisode |-> list[animeIndex].currentEpisode]
        trendingIndex == IndexOf(trending.manualTrending, animeId)
    IN IF animeIndex = 0
       THEN Unchanged(JsonError(404, "Anime not found"))
       ELSE IF "animes" \in fails
       THEN Unchanged(JsonError(500, "Failed to update anime"))
       ELSE Outcome(JsonBody(200, updated),
                    [list EXCEPT ![animeIndex] = updated], episodeFiles,
                    IF trending.mode # "manual" THEN trending
                    ELSE IF updated.isTrending /\ trendingIndex = 0
                    THEN Written("trending", fails, trending,
                            [trending EXCEPT
                                !.manualTrending = Append(@, animeId.v)])
                    ELSE IF ~updated.isTrending /\ trendingIndex # 0
                    THEN Written("trending", fails, trending,
                            [trending EXCEPT
                                !.manualTrending = Splice(@, trendingIndex)])
                    ELSE trending,
                    schedule)

\* fs.unlinkSync(episodesFile) when the file exists
Unlink(file) ==
    IF DOMAIN episodeFiles \ {file} = {} THEN <<>>
    ELSE [f \in DOMAIN episodeFiles \ {file} |-> episodeFiles[f]]

\* DELETE /api/animes/:id
DeleteAnime(idParam, fails) ==
    LET animeId == ParseInt(idParam)
        list == ReadAnimes
        animeIndex == FindAnimeIndex(list, animeId)
        unlinked == Unlink(GetEpisodesFile(animeId))
        trendingIndex == IndexOf(trending.manualTrending, animeId)
        updatedSchedule ==
            SelectSeq(schedule,
                      LAMBDA item : ~StrictEq(Num(item.animeId), animeId))
    IN IF animeIndex = 0
       THEN Unchanged(JsonError(404, "Anime not found"))
       ELSE IF "animes" \in fails
       THEN Outcome(JsonError(500, "Failed to delete anime"), animes,
                    unlinked, trending, schedule)
       ELSE Outcome(JsonBody(200, list[animeIndex]),
                    Splice(list, animeIndex), unlinked,
                    IF trendingIndex # 0
                    THEN Written("trending", fails, trending,
                            [trending EXCEPT
                                !.manualTrending = Splice(@, trendingIndex)])
                    ELSE trending,
                    Written("schedule", fails, schedule, updatedSchedule))

\* POST /api/trending/settings with body { mode }; mode "" stands for a body
\* without mode, and the body has no maxItems
TrendingSettings(mode, fails) ==
    IF "trending" \in fails
    THEN Unchanged(JsonError(500, "Failed to update trending settings"))
    ELSE Outcome(JsonOk(200), animes, episodeFiles,
                 [trending EXCEPT !.mode = IF mode # "" THEN mode ELSE @],
                 schedule)

\* PUT /api/trending/:id with body { isTrending }
ToggleTrending(idParam, isTrending, fails) ==
    LET animeId == ParseInt(idParam)
        list == ReadAnimes
        animeIndex == FindAnimeIndex(list, animeId)
        trendingIndex == IndexOf(trending.manualTrending, animeId)
        toggled == [list EXCEPT ![animeIndex].isTrending = isTrending]
        updated ==
            IF isTrending /\ trendingIndex = 0
            THEN [trending EXCEPT !.manualTrending = Append(@, animeId.v)]
            ELSE IF ~isTrending /\ trendingIndex # 0
            THEN [trending EXCEPT
                    !.manualTrending = Splice(@, trendingIndex)]
            ELSE trending
    IN IF animeIndex = 0
       THEN Unchanged(JsonError(404, "Anime not found"))
       ELSE IF "animes" \in fails
       THEN Unchanged(JsonError(500, "Failed to update trending status"))
       ELSE IF "trending" \in fails
       THEN Outcome(JsonError(500, "Failed to update trending status"),
                    toggled, episodeFiles, trending, schedule)
       ELSE Outcome(JsonOk(200), toggled, episodeFiles, updated, schedule)

\* readEpisodes(animeId) writes a missing file outside its try block: when
\* that write fails the exception leaves the handler and Express answers 500
ReadEpisodesThrows(animeId, fails) ==
    "episodes" \in fails /\ GetEpisodesFile(animeId) \notin DOMAIN episodeFiles

\* animes[animeIndex].episodes = Math.max(episodes || 0, n);
\* animes[animeIndex].currentEpisode = n
UpdateCounts(list, animeIndex, n) ==
    [list EXCEPT ![animeIndex] =
        [@ EXCEPT !.episodes = Max(@, n), !.currentEpisode = n]]

\* the end of every episode handler: writeEpisodes, then the counts of the
\* anime record and writeAnimes, whose result is not looked at
SaveEpisodes(animeId, list, animeIndex, episodes, fails, ok, failed) ==
    IF "episodes" \in fails
    THEN Outcome(failed, animes, EpisodeFilesAfterRead(animeId), trending,
                 schedule)
    ELSE Outcome(ok,
                 Written("animes", fails, animes,
                         UpdateCounts(list, animeIndex, Len(episodes))),
                 WriteEpisodes(animeId, episodes), trending, schedule)

\* POST /api/animes/:id/episodes with body { episodeNumber, sources }
PostEpisode(idParam, body, fails) ==
    LET animeId == ParseInt(idParam)
        list == ReadAnimes
        animeIndex == FindAnimeIndex(list, animeId)
        episodes == ReadEpisodes(animeId)
        episodeNumber == ParseInt(body.episodeNumber)
        newEpisode == [episodeNumber |-> episodeNumber,
                       sources |-> body.sources]
    IN IF animeIndex = 0
       THEN Unchanged(JsonError(404, "Anime not found"))
       ELSE IF ReadEpisodesThrows(animeId, fails)
       THEN Unchanged(ExpressError)
       ELSE IF FindEpisodeIndex(episodes, episodeNumber) # 0
       THEN Outcome(JsonError(400, "Episode number already exists"), animes,
                    EpisodeFilesAfterRead(animeId), trending, schedule)
       ELSE SaveEpisodes(animeId, list, animeIndex,
                         Append(episodes, newEpisode), fails,
                         JsonBody(201, newEpisode),
                         JsonError(500, "Failed to add episode"))

\* episode.sources as a map; empty when the record has no sources
SourceMap(episode) ==
    IF episode.sources.has THEN episode.sources.map ELSE <<>>

\* { ...old, ...new }
Spread(old, new) ==
    IF DOMAIN old \cup DOMAIN new = {} THEN <<>> ELSE new @@ old

\* the loop body of the upload, batch and parse-select handlers: the episode
\* with item's number gets item's links, or a new episode is pushed
Upsert(episodes, item) ==
    LET idx == FindEpisodeIndex(episodes, item.episodeNumber)
    IN IF idx # 0
       THEN [episodes EXCEPT ![idx].sources =
                Sources(Spread(SourceMap(episodes[idx]), item.map))]
       ELSE Append(episodes, [episodeNumber |-> item.episodeNumber,
                              sources |-> Sources(item.map)])

RECURSIVE UpsertAll(_, _)
UpsertAll(episodes, items) ==
    IF items = <<>> THEN episodes
    ELSE UpsertAll(Upsert(episodes, Head(items)), Tail(items))

\* a.episodeNumber - b.episodeNumber compares a null episodeNumber as 0
SortKey(episode) ==
    IF episode.episodeNumber.nan THEN 0 ELSE episode.episodeNumber.v

\* episodes.sort((a, b) => a.episodeNumber - b.episodeNumber): stable
RECURSIVE SortEpisodes(_)
SortEpisodes(list) ==
    IF list = <<>> THEN <<>>
    ELSE LET rest == SortEpisodes(SubSeq(list, 1, Len(list) - 1))
             last == list[Len(list)]
             p == Cardinality({i \in 1..Len(rest) :
                                  SortKey(rest[i]) <= SortKey(last)})
         IN SubSeq(rest, 1, p) \o <<last>> \o SubSeq(rest, p + 1, Len(rest))

\* path.relative(__dirname, req.file.path): multer's destination reads
\* req.params.animeId, which this route does not have
UploadedPath(number) ==
    <<"u", "p", "l", "o", "a", "d", "s", "/", "u", "n", "d", "e", "f", "i",
      "n", "e", "d", "/", "e", "p", "i", "s", "o", "d", "e", "_">>
    \o number \o <<".", "m", "p", "4">>

\* POST /api/animes/:id/episodes/upload, after multer stored the file (if
\* any) of the multipart body { episodeNumber, video }
UploadEpisode(idParam, number, hasFile, fails) ==
    LET animeId == ParseInt(idParam)
        list == ReadAnimes
        animeIndex == FindAnimeIndex(list, animeId)
        item == [episodeNumber |-> ParseInt(number),
                 map |-> (Server1 :> UploadedPath(number))]
    IN IF animeIndex = 0
       THEN Unchanged(JsonError(404, "Anime not found"))
       ELSE IF ~hasFile
       THEN Unchanged(JsonError(400, "No video file uploaded"))
       ELSE IF ReadEpisodesThrows(animeId, fails)
       THEN Unchanged(ExpressError)
       ELSE SaveEpisodes(animeId, list, animeIndex,
                         Upsert(ReadEpisodes(animeId), item), fails,
                         JsonOk(201),
                         JsonError(500, "Failed to save episode data"))

\* String.prototype.trim() for strings of spaces and other characters
RECURSIVE Trim(_)
Trim(s) ==
    IF s # <<>> /\ IsSpace(Head(s)) THEN Trim(Tail(s))
    ELSE IF s # <<>> /\ IsSpace(s[Len(s)]) THEN Trim(SubSeq(s, 1, Len(s) - 1))
    ELSE s

\* s.replace(pat, by): the first occurrence
RECURSIVE ReplaceFirst(_, _, _)
ReplaceFirst(s, pat, by) ==
    IF Len(s) < Len(pat) THEN s
    ELSE IF StartsWith(s, pat) THEN by \o Tail2(s, Len(pat))
    ELSE <<Head(s)>> \o ReplaceFirst(Tail(s), pat, by)

\* episodeLinks.split('\n').map(link => link.trim()).filter(link => link)
Links(episodeLinks) ==
    SelectSeq([i \in 1..Len(Split(episodeLinks, "\n")) |->
                  Trim(Split(episodeLinks, "\n")[i])],
              LAMBDA link : link # <<>>)

BasePattern ==
    <<"h", "t", "t", "p", ":", "/", "/", "e", "/",
      "{", "e", "p", "i", "s", "o", "d", "e", "}">>

\* bodies of the batch route: episodeLinks and totalEpisodes (an empty string
\* and 0 stand for a missing field), basePattern and a numeric startEpisode;
\* no server field, so the links go to server1
BatchBodies ==
    [episodeLinks : {<<>>, <<" ">>, <<"a">>, <<"a", "\n", "b">>},
     totalEpisodes : {0}, startEpisode : {1, 2}]
    \cup [episodeLinks : {<<>>}, totalEpisodes : {1, 2}, startEpisode : {1, 2}]

\* the episodes a batch body names, in the order of the loop
BatchItems(body) ==
    IF Trim(body.episodeLinks) # <<>>
    THEN [i \in 1..Len(Links(body.episodeLinks)) |->
            [episodeNumber |-> Num(body.startEpisode + i - 1),
             map |-> (Server1 :> Links(body.episodeLinks)[i])]]
    ELSE [i \in 1..body.totalEpisodes |->
            [episodeNumber |-> Num(body.startEpisode + i - 1),
             map |-> (Server1 :>
                        ReplaceFirst(BasePattern,
                                     <<"{", "e", "p", "i", "s", "o", "d",
                                       "e", "}">>,
                                     ToDecimal(body.startEpisode + i - 1)))]]

\* POST /api/animes/:id/episodes/batch
BatchEpisodes(idParam, body, fails) ==
    LET animeId == ParseInt(idParam)
        list == ReadAnimes
        animeIndex == FindAnimeIndex(list, animeId)
    IN IF animeIndex = 0
       THEN Unchanged(JsonError(404, "Anime not found"))
       ELSE IF ReadEpisodesThrows(animeId, fails)
       THEN Unchanged(ExpressError)
       ELSE IF Trim(body.episodeLinks) = <<>> /\ body.totalEpisodes = 0
       THEN Outcome(JsonError(400, "Invalid input for batch episode addition"),
                    animes, EpisodeFilesAfterRead(animeId), trending,
                    schedule)
       ELSE SaveEpisodes(animeId, list, animeIndex,
                         SortEpisodes(UpsertAll(ReadEpisodes(animeId),
                                                BatchItems(body))),
                         fails, JsonOk(201),
                         JsonError(500, "Failed to add batch episodes"))

Link1 == <<"L", "I", "N", "K", "1">>
Stars == <<"*", "*">>

\* s.replace(/\*\*/g, "")
RECURSIVE RemoveAll(_, _)
RemoveAll(s, pat) ==
    IF RemoveFirst(s, pat) = s THEN s ELSE RemoveAll(RemoveFirst(s, pat), pat)

\* the <option value data-server1 data-server2> elements the regular
\* expression of the parse-select route finds in selectHtml: the value is a
\* string of digits
SelectOptions ==
    { [value |-> <<"1">>, server1 |-> Link1, server2 |-> Stars \o RemoteUrl],
      [value |-> <<"2">>, server1 |-> RemoteUrl, server2 |-> <<>>] }

\* selectHtml: missing, or a text with up to two such options
SelectHtmls ==
    [has : {FALSE}, options : {<<>>}]
    \cup [has : {TRUE}, options : SeqsUpTo(SelectOptions, 2)]

\* the links of one parsed option: LINK1 stands for no server1 link, ** is
\* removed from the server2 link, and an empty link is left out
ParsedItem(option) ==
    LET server1Url == IF option.server1 = Link1 THEN <<>> ELSE option.server1
        server2Url == RemoveAll(option.server2, Stars)
    IN [episodeNumber |-> ParseInt(option.value),
        map |-> Spread(IF server1Url # <<>> THEN Server1 :> server1Url
                       ELSE <<>>,
                       IF server2Url # <<>> THEN Server2 :> server2Url
                       ELSE <<>>)]

\* POST /api/animes/:id/episodes/parse-select
ParseSelect(idParam, selectHtml, fails) ==
    LET animeId == ParseInt(idParam)
        list == ReadAnimes
        animeIndex == FindAnimeIndex(list, animeId)
        parsedEpisodes == [i \in 1..Len(selectHtml.options) |->
                              ParsedItem(selectHtml.options[i])]
    IN IF animeIndex = 0
       THEN Unchanged(JsonError(404, "Anime not found"))
       ELSE IF ReadEpisodesThrows(animeId, fails)
       THEN Unchanged(ExpressError)
       ELSE IF ~selectHtml.has
       THEN Outcome(JsonError(400, "Select HTML content is required"),
                    animes, EpisodeFilesAfterRead(animeId), trending,
                    schedule)
       ELSE IF parsedEpisodes = <<>>
       THEN Outcome(JsonError(400, "No valid episodes found in the provided HTML"),
                    animes, EpisodeFilesAfterRead(animeId), trending,
                    schedule)
       ELSE SaveEpisodes(animeId, list, animeIndex,
                         SortEpisodes(UpsertAll(ReadEpisodes(animeId),
                                                parsedEpisodes)),
                         fails, JsonOk(201),
                         JsonError(500, "Failed to add parsed episodes"))

\* bodies of POST /api/schedule; an empty string stands for a missing field
ScheduleBodies ==
    [animeId : ParamStrings, dayOfWeek : {"", "Mon", "Tue"},
     releaseTime : {"", "09:00"}]

\* POST /api/schedule
AddSchedule(body, fails) ==
    LET animeId == ParseInt(body.animeId)
        scheduleId == IF Len(schedule) > 0 THEN MaxId(schedule) + 1 ELSE 1
        newSchedule == [id |-> scheduleId, animeId |-> animeId.v,
                        dayOfWeek |-> body.dayOfWeek,
                        releaseTime |-> body.releaseTime]
    IN IF \/ animeId.nan
          \/ animeId.v = 0
          \/ body.dayOfWeek = ""
          \/ body.releaseTime = ""
       THEN Unchanged(JsonError(400, "Missing required fields"))
       ELSE IF FindAnimeIndex(ReadAnimes, animeId) = 0
       THEN Unchanged(JsonError(404, "Anime not found"))
       ELSE IF \E i \in 1..Len(schedule) :
                  /\ StrictEq(Num(schedule[i].animeId), animeId)
                  /\ schedule[i].dayOfWeek = body.dayOfWeek
       THEN Unchanged(JsonError(400,
                "Schedule already exists for this anime on this day"))
       ELSE IF "schedule" \in fails
       THEN Unchanged(JsonError(500, "Failed to add schedule"))
       ELSE Outcome(JsonBody(201, newSchedule), animes, episodeFiles,
                    trending, Append(schedule, newSchedule))

\* DELETE /api/schedule/:id
DeleteSchedule(idParam, fails) ==
    LET scheduleIndex == FindAnimeIndex(schedule, ParseInt(idParam))
    IN IF scheduleIndex = 0
       THEN Unchanged(JsonError(404, "Schedule not found"))
       ELSE IF "schedule" \in fails
       THEN Unchanged(JsonError(500, "Failed to delete schedule"))
       ELSE Outcome(JsonBody(200, schedule[scheduleIndex]), animes,
                    episodeFiles, trending, Splice(schedule, scheduleIndex))

\* the ids of the records of a list stay within the model's range
IdsWithin(list) == \A i \in 1..Len(list) : list[i].id <= MaxIdent

\* a request to a store route arrives and its handler runs; the model keeps
\* at most `limit` records in the store
Respond(request, out, limit) ==
    /\ phase = "idle"
    /\ before' = Catalog
    /\ animes' = out.animes
    /\ episodeFiles' = out.episodeFiles
    /\ trending' = out.trending
    /\ schedule' = out.schedule
    /\ StoredRecords' + Len(schedule') <= limit
    /\ IdsWithin(out.animes) /\ IdsWithin(out.schedule)
    /\ req' = request
    /\ res' = out.res
    /\ phase' = "done"
    /\ UNCHANGED <<disk, stream, fsCalls>>

\* POST /api/animes with body { isTrending }, every write succeeding
CreateAnime(isTrending) ==
    Respond(OtherReq("createAnime", <<>>),
            PostAnime([hasId |-> FALSE, id |-> 1, isTrending |-> isTrending],
                      {}),
            MaxRecords)

\* a POST /api/animes arrives
CreateAnimeRequest ==
    /\ phase = "idle"
    /\ \E isTrending \in BOOLEAN : CreateAnime(isTrending)

\* POST /api/animes/:id/episodes with body { episodeNumber, sources }, every
\* write succeeding
AddEpisode(idParam, number, sources) ==
    Respond(StoreReq("addEpisode", idParam, number),
            PostEpisode(idParam,
                        [episodeNumber |-> number, sources |-> sources], {}),
            MaxRecords)

\* a POST /api/animes/:id/episodes arrives
AddEpisodeRequest ==
    /\ phase = "idle"
    /\ \E idParam \in ParamStrings, number \in EpisodeNumbers,
          sources \in SourcesChoices : AddEpisode(idParam, number, sources)

(***************************************************************************)
(* The requests of the store routes, with writes that may fail; the store  *)
(* holds at most `limit` records.                                          *)
(***************************************************************************)
PostAnimeRequest(limit) ==
    /\ phase = "idle"
    /\ \E body \in AnimeBodies, fails \in FaultSets :
          Respond(OtherReq("createAnime", <<>>), PostAnime(body, fails),
                  limit)

PutAnimeRequest(limit) ==
    /\ phase = "idle"
    /\ \E idParam \in ParamStrings, body \in AnimeBodies, fails \in FaultSets :
          Respond(OtherReq("updateAnime", idParam),
                  PutAnime(idParam, body, fails), limit)

DeleteAnimeRequest(limit) ==
    /\ phase = "idle"
    /\ \E idParam \in ParamStrings, fails \in FaultSets :
          Respond(OtherReq("deleteAnime", idParam),
                  DeleteAnime(idParam, fails), limit)

TrendingSettingsRequest(limit) ==
    /\ phase = "idle"
    /\ \E mode \in {"", "auto", "manual"}, fails \in FaultSets :
          Respond(OtherReq("trendingSettings", <<>>),
                  TrendingSettings(mode, fails), limit)

ToggleTrendingRequest(limit) ==
    /\ phase = "idle"
    /\ \E idParam \in ParamStrings, isTrending \in BOOLEAN,
          fails \in FaultSets :
          Respond(OtherReq("toggleTrending", idParam),
                  ToggleTrending(idParam, isTrending, fails), limit)

PostEpisodeRequest(limit) ==
    /\ phase = "idle"
    /\ \E idParam \in ParamStrings, number \in ParamStrings,
          fails \in FaultSets :
          Respond(StoreReq("addEpisode", idParam, number),
                  PostEpisode(idParam,
                              [episodeNumber |-> number,
                               sources |-> NoSources], fails),
                  limit)

UploadEpisodeRequest(limit) ==
    /\ phase = "idle"
    /\ \E idParam \in ParamStrings, number \in ParamStrings,
          hasFile \in BOOLEAN, fails \in FaultSets :
          Respond(StoreReq("uploadEpisode", idParam, number),
                  UploadEpisode(idParam, number, hasFile, fails), limit)

BatchEpisodesRequest(limit) ==
    /\ phase = "idle"
    /\ \E idParam \in ParamStrings, body \in BatchBodies, fails \in FaultSets :
          Respond(OtherReq("batchEpisodes", idParam),
                  BatchEpisodes(idParam, body, fails), limit)

ParseSelectRequest(limit) ==
    /\ phase = "idle"
    /\ \E idParam \in ParamStrings, selectHtml \in SelectHtmls,
          fails \in FaultSets :
          Respond(OtherReq("parseSelect", idParam),
                  ParseSelect(idParam, selectHtml, fails), limit)

AddScheduleRequest(limit) ==
    /\ phase = "idle"
    /\ \E body \in ScheduleBodies, fails \in FaultSets :
          Respond(OtherReq("addSchedule", body.animeId),
                  AddSchedule(body, fails), limit)

DeleteScheduleRequest(limit) ==
    /\ phase = "idle"
    /\ \E idParam \in ParamStrings, fails \in FaultSets :
          Respond(OtherReq("deleteSchedule", idParam),
                  DeleteSchedule(idParam, fails), limit)

\* the response is over; the server waits for the next request
NextRequest ==
    /\ phase = "done"
    /\ phase' = "idle"
    /\ req' = IdleReq
    /\ res' = NoRes
    /\ stream' = NoStream
    /\ fsCalls' = {}
    /\ before' = Catalog
    /\ UNCHANGED <<catalogVars, disk>>

(***************************************************************************)
(* The specification.                                                      *)
(***************************************************************************)
\* the state after the start-up code has run on an empty data directory, with
\* one video file of some size below __dirname
Init ==
    /\ animes = <<>>
    /\ episodeFiles = <<>>
    /\ trending = [mode |-> "auto", maxItems |-> 10, manualTrending |-> <<>>]
    /\ schedule = <<>>
    /\ \E size \in 0..MaxFileSize :
          disk = (PathJoin(LocalVideo) :> [kind |-> "file", bytes |-> FileBytes(size)])
                 @@ (PathJoin(DataDirName) :> [kind |-> "dir", bytes |-> <<>>])
    /\ phase = "idle"
    /\ req = IdleReq
    /\ res = NoRes
    /\ stream = NoStream
    /\ fsCalls = {}
    /\ before = [animes |-> <<>>, episodeFiles |-> <<>>,
                 trending |-> [mode |-> "auto", maxItems |-> 10,
                               manualTrending |-> <<>>],
                 schedule |-> <<>>]

Next ==
    \/ CreateAnimeRequest
    \/ AddEpisodeRequest
    \/ VideoRequest
    \/ StreamData
    \/ StreamEnd
    \/ StreamError
    \/ NextRequest

Spec == Init /\ [][Next]_vars

\* the same server with clients that may disconnect during a stream.  The
\* event loop runs every pending callback of a read stream, so the stream's
\* steps are fair; requests and disconnects are the clients' choice.
DisconnectNext ==
    \/ Next
    \/ ClientDisconnect

DisconnectSpec ==
    /\ Init
    /\ [][DisconnectNext]_vars
    /\ WF_vars(StreamData)
    /\ WF_vars(StreamEnd)
    /\ WF_vars(StreamError)

\* the store on a fresh data directory; the video file plays no part
StoreInit == Init /\ disk[PathJoin(LocalVideo)].bytes = <<>>

\* the routes of the animes, trending and schedule files, and the route that
\* adds one episode, with writes that may fail
CatalogNext ==
    \/ PostAnimeRequest(MaxRecords)
    \/ PutAnimeRequest(MaxRecords)
    \/ DeleteAnimeRequest(MaxRecords)
    \/ TrendingSettingsRequest(MaxRecords)
    \/ ToggleTrendingRequest(MaxRecords)
    \/ PostEpisodeRequest(MaxRecords)
    \/ AddScheduleRequest(MaxRecords)
    \/ DeleteScheduleRequest(MaxRecords)
    \/ NextRequest

CatalogSpec == StoreInit /\ [][CatalogNext]_vars

\* the routes that write episode files, and the creation of animes, with
\* writes that may fail
EpisodeNext ==
    \/ PostAnimeRequest(MaxStored)
    \/ PostEpisodeRequest(MaxStored)
    \/ UploadEpisodeRequest(MaxStored)
    \/ BatchEpisodesRequest(MaxStored)
    \/ ParseSelectRequest(MaxStored)
    \/ NextRequest

EpisodeSpec == StoreInit /\ [][EpisodeNext]_vars

(***************************************************************************)
(* The GET routes below /api/animes and the router that picks one.         *)
(***************************************************************************)
\* c.toLowerCase() for one character of the alphabet used here
LowerChar(c) == IF c = "A" THEN "a" ELSE IF c = "B" THEN "b" ELSE c

\* s.toLowerCase()
ToLowerCase(s) == [i \in 1..Len(s) |-> LowerChar(s[i])]

\* s.includes(t)
Includes(s, t) ==
    \E i \in 1..(Len(s) - Len(t) + 1) : SubSeq(s, i, i + Len(t) - 1) = t

\* a field that may be undefined
Undefined == [has |-> FALSE, v |-> <<>>]
Defined(v) == [has |-> TRUE, v |-> v]

\* path segments
ApiSegment == <<"a", "p", "i">>
AnimesSegment == <<"a", "n", "i", "m", "e", "s">>
SearchSegment == <<"s", "e", "a", "r", "c", "h">>

\* a literal segment and a named parameter of a route path
Literal(text) == [param |-> FALSE, text |-> text]
Parameter == [param |-> TRUE, text |-> <<>>]

\* the app.get routes of at most three segments below /api/animes, in the
\* order of their registration
GetRoutes ==
    << [path |-> <<Literal(ApiSegment), Literal(AnimesSegment)>>,
        handler |-> "getAnimes"],
       [path |-> <<Literal(ApiSegment), Literal(AnimesSegment), Parameter>>,
        handler |-> "getAnimeById"],
       [path |-> <<Literal(ApiSegment), Literal(AnimesSegment),
                   Literal(SearchSegment)>>,
        handler |-> "searchAnimes"] >>

\* a route path matches a request path: as many segments, a parameter takes
\* any segment, a literal is compared without regard to case
RouteMatches(route, path) ==
    /\ Len(route.path) = Len(path)
    /\ \A i \in 1..Len(path) :
          \/ route.path[i].param
          \/ ToLowerCase(route.path[i].text) = ToLowerCase(path[i])

\* the first registered route that matches; 0 when none does.  No handler
\* calls next(), so no later route sees the request.
Dispatch(path) ==
    IF \E i \in 1..Len(GetRoutes) : RouteMatches(GetRoutes[i], path)
    THEN CHOOSE i \in 1..Len(GetRoutes) :
            /\ RouteMatches(GetRoutes[i], path)
            /\ \A j \in 1..(i - 1) : ~RouteMatches(GetRoutes[j], path)
    ELSE 0

\* the defaults every reader adds, for the fields kept here:
\* currentEpisode: anime.currentEpisode || anime.episodes || 0
WithDefaults(anime) ==
    [anime EXCEPT !.currentEpisode = IF @ # 0 THEN @ ELSE anime.episodes]

WithDefaultsAll(list) == [i \in 1..Len(list) |-> WithDefaults(list[i])]

\* GET /api/animes
GetAnimes == JsonBody(200, WithDefaultsAll(ReadAnimes))

\* GET /api/animes/:id
GetAnimeById(idParam) ==
    LET animeId == ParseInt(idParam)
        list == ReadAnimes
        animeIndex == FindAnimeIndex(list, animeId)
    IN IF animeIndex = 0
       THEN JsonError(404, "Anime not found")
       ELSE JsonBody(200, WithDefaults(list[animeIndex]))

\* the filter of the search handler
SearchFilter(anime, searchTerm) ==
    \/ anime.title.has /\ Includes(ToLowerCase(anime.title.v), searchTerm)
    \/ /\ anime.synopsis.has
       /\ anime.synopsis.v # <<>>
       /\ Includes(ToLowerCase(anime.synopsis.v), searchTerm)
    \/ /\ anime.genres.has
       /\ \E g \in 1..Len(anime.genres.v) :
             Includes(ToLowerCase(anime.genres.v[g]), searchTerm)

\* GET /api/animes/search; q is req.query.q
SearchAnimes(q) ==
    LET searchTerm == IF q.has THEN ToLowerCase(q.v) ELSE <<>>
    IN JsonBody(200,
           WithDefaultsAll(SelectSeq(ReadAnimes,
               LAMBDA anime : SearchFilter(anime, searchTerm))))

\* the last app.use: status 404 with public/index.html
NotFoundPage ==
    [status |-> 404, statusWrites |-> 1,
     headers |-> ("Content-Type" :> "text/html"),
     body |-> <<>>, ended |-> TRUE, error |-> ""]

\* what the application answers to GET path?q=...
RouteGet(path, q) ==
    LET i == Dispatch(path)
    IN IF i = 0 THEN NotFoundPage
       ELSE IF GetRoutes[i].handler = "getAnimes" THEN GetAnimes
       ELSE IF GetRoutes[i].handler = "getAnimeById"
       THEN GetAnimeById(path[Len(path)])
       ELSE SearchAnimes(q)

\* the handler that answered
HandlerOf(path) ==
    IF Dispatch(path) = 0 THEN "notFound" ELSE GetRoutes[Dispatch(path)].handler

\* the text fields of the bodies of POST /api/animes
TextBodies ==
    [title : {Undefined, Defined(<<"A", "b">>), Defined(<<"c">>)},
     synopsis : {Undefined, Defined(<<>>), Defined(<<"b", "a">>)},
     genres : {Undefined, Defined(<<<<"B", "c">>>>)}]

\* POST /api/animes with title, synopsis and genres in the body:
\* { id: newId, ...req.body, ... }
PostTextAnime(body) ==
    LET out == PostAnime([hasId |-> FALSE, id |-> 1, isTrending |-> FALSE], {})
        newAnime == body @@ out.res.body[1]
    IN [out EXCEPT !.animes = Append(ReadAnimes, newAnime),
                   !.res = JsonBody(201, newAnime)]

PostTextAnimeRequest ==
    /\ phase = "idle"
    /\ \E body \in TextBodies :
          Respond(OtherReq("createAnime", <<>>), PostTextAnime(body),
                  MaxRecords)

\* the paths and the q parameters of the GET requests
GetPaths ==
    { <<ApiSegment, AnimesSegment>>,
      <<ApiSegment, AnimesSegment, SearchSegment>>,
      <<ApiSegment, AnimesSegment, <<"1">>>>,
      <<ApiSegment, AnimesSegment, <<"2">>>>,
      <<ApiSegment, SearchSegment>> }

SearchTerms ==
    {Undefined, Defined(<<>>), Defined(<<"a">>), Defined(<<"A", "B">>),
     Defined(<<"c">>), Defined(<<"d">>)}

\* a GET request: the handler that answered, its path and its q
GetReq(path, q) ==
    [path |-> path, q |-> q] @@ OtherReq(HandlerOf(path), path[Len(path)])

GetRequest ==
    /\ phase = "idle"
    /\ \E path \in GetPaths, q \in SearchTerms :
          Respond(GetReq(path, q), Unchanged(RouteGet(path, q)), MaxRecords)

SearchNext ==
    \/ PostTextAnimeRequest
    \/ GetRequest
    \/ NextRequest

SearchSpec == StoreInit /\ [][SearchNext]_vars

(***************************************************************************)
(* Properties of the video route.                                          *)
(***************************************************************************)
VideoHeadNames == {"Content-Range", "Accept-Ranges", "Content-Length", "Content-Type"}

HasHttpPrefix(p) ==
    Len(p) >= 4 /\ p[1] = "h" /\ p[2] = "t" /\ p[3] = "t" /\ p[4] = "p"

\* a string of decimal digits and nothing else
IsDecimal(s) == s # <<>> /\ \A i \in 1..Len(s) : IsDigit(s[i])

\* the request in progress is a video request whose source is a regular file
\* that exists below __dirname
LocalFileRequest ==
    /\ req.route = "video"
    /\ req.resolved
    /\ ~HasHttpPrefix(req.videoPath)
    /\ PathJoin(req.videoPath) \in DOMAIN disk
    /\ disk[PathJoin(req.videoPath)].kind = "file"

ServedBytes == disk[PathJoin(req.videoPath)].bytes

\* the handler took the range branch
RangeRequest == req.route = "video" /\ req.rangeRead /\ RangeTruthy(req.range)

\* `bytes=S-E` and `bytes=S-`
ClosedRangeHeader(S, E) == BytesPrefix \o ToDecimal(S) \o <<"-">> \o ToDecimal(E)
OpenRangeHeader(S) == BytesPrefix \o ToDecimal(S) \o <<"-">>

\* the response is the partial content S..E of the served file: the head, and
\* the bytes written so far are the bytes from S on, all of S..E once it ended
PartialContent(S, E) ==
    /\ phase \in {"streaming", "done"}
    /\ res.status = 206
    /\ res.statusWrites = 1
    /\ DOMAIN res.headers = VideoHeadNames
    /\ res.headers["Content-Range"] =
          [unit |-> "bytes", start |-> Num(S), end |-> Num(E),
           size |-> Len(ServedBytes)]
    /\ res.headers["Accept-Ranges"] = "bytes"
    /\ res.headers["Content-Length"] = Num(E - S + 1)
    /\ res.headers["Content-Type"] = "video/mp4"
    /\ Len(res.body) <= E - S + 1
    /\ res.body = SubSeq(ServedBytes, S + 1, S + Len(res.body))
    /\ phase = "done" => res.ended /\ res.body = SubSeq(ServedBytes, S + 1, E + 1)

\* C1: for a local source whose file exists with size fileSize and a Range
\* header bytes=S-E or bytes=S- (E = fileSize-1) with 0 <= S <= E < fileSize,
\* the answer is 206 with Content-Range bytes S-E/fileSize, Accept-Ranges
\* bytes, Content-Length E-S+1 and Content-Type video/mp4, and the body
\* streamed is exactly the file's bytes S..E in order.
ValidRangeServedExactly ==
    (LocalFileRequest /\ RangeRequest) =>
        \A S \in 0..(Len(ServedBytes) - 1), E \in 0..(Len(ServedBytes) - 1) :
            /\ (S <= E /\ req.range.value = ClosedRangeHeader(S, E))
                    => PartialContent(S, E)
            /\ req.range.value = OpenRangeHeader(S)
                    => PartialContent(S, Len(ServedBytes) - 1)

\* C1 witness: bytes=0-1 has been served in full from a file of 3 bytes
ValidRangeServedWitness ==
    /\ LocalFileRequest /\ RangeRequest
    /\ Len(ServedBytes) = 3
    /\ req.range.value = ClosedRangeHeader(0, 1)
    /\ phase = "done"
    /\ res.status = 206
    /\ res.body = <<101, 102>>

\* C2: in every 206 response, whatever the Range header, the reported bounds
\* satisfy 0 <= start <= end <= fileSize-1 and the body bytes emitted are
\* end - start + 1, the advertised Content-Length.
PartialResponsesAreExact ==
    (LocalFileRequest /\ res.status = 206) =>
        LET cr == res.headers["Content-Range"]
        IN /\ ~cr.start.nan /\ ~cr.end.nan
           /\ 0 <= cr.start.v
           /\ cr.start.v <= cr.end.v
           /\ cr.end.v <= cr.size - 1
           /\ res.headers["Content-Length"] = Num(cr.end.v - cr.start.v + 1)
           /\ phase = "done"
                => Len(res.body) = cr.end.v - cr.start.v + 1

\* C3: when the Range header parses to start > end or to start >= fileSize,
\* the request fails: no 206 is sent and no file byte is streamed.
UnsatisfiableRangeIsRejected ==
    (LocalFileRequest /\ RangeRequest) =>
        LET parts == RangeParts(req.range.value)
            fileSize == Len(ServedBytes)
            start == RangeStart(parts)
            end == RangeEnd(parts, fileSize)
        IN (Greater(start, end) \/ Greater(start, Num(fileSize - 1))) =>
              /\ res.status # 206
              /\ res.body = <<>>
              /\ stream.state = "none"

\* C4: when a Range header is present and its start part is not a valid
\* base-10 integer, the request fails: no 206 status line and no range
\* headers are sent.
MalformedRangeIsRejected ==
    (/\ LocalFileRequest
     /\ RangeRequest
     /\ ~IsDecimal(RangeParts(req.range.value)[1])) =>
        /\ res.status # 206
        /\ "Content-Range" \notin DOMAIN res.headers
        /\ stream.state = "none"

\* C5: for a local source whose file exists and a request without a Range
\* header, the answer is 200 with Content-Length the file's size and
\* Content-Type video/mp4, without a Content-Range header, and the whole file
\* is streamed.
NoRangeServesWholeFile ==
    (LocalFileRequest /\ req.rangeRead /\ ~req.hasRange) =>
        /\ phase \in {"streaming", "done"}
        /\ res.status = 200
        /\ res.statusWrites = 1
        /\ DOMAIN res.headers = {"Content-Length", "Content-Type"}
        /\ res.headers["Content-Length"] = Num(Len(ServedBytes))
        /\ res.headers["Content-Type"] = "video/mp4"
        /\ res.body = SubSeq(ServedBytes, 1, Len(res.body))
        /\ phase = "done" => res.ended /\ res.body = ServedBytes

\* C5 witness: a file of 3 bytes has been streamed in full, in two chunks
NoRangeWitness ==
    /\ LocalFileRequest /\ req.rangeRead /\ ~req.hasRange
    /\ phase = "done"
    /\ res.status = 200
    /\ res.body = <<101, 102, 103>>

\* C6: when the resolved source begins with http the answer is a redirect to
\* that URL and no existence check, stat or read of a local file is made,
\* whatever the Range header; a source that does not begin with http is never
\* redirected.
RemoteSourceRedirects ==
    req.route = "video" =>
        IF req.resolved /\ HasHttpPrefix(req.videoPath)
        THEN /\ res.status \in 300..399
             /\ res.statusWrites = 1
             /\ res.headers["Location"] = req.videoPath
             /\ res.ended
             /\ res.body = <<>>
             /\ fsCalls = {}
             /\ stream.state = "none"
             /\ phase = "done"
        ELSE res.status \notin 300..399

\* C6 witness: a request with a Range header for a source named http.mp4 has
\* been redirected
RemoteSourceWitness ==
    /\ req.route = "video"
    /\ req.hasRange
    /\ req.videoPath = HttpNamedVideo
    /\ res.status = 302

\* C7: when the resolved local path does not exist the answer is 404; no read
\* stream is opened and no 200/206 head is sent, with or without a Range
\* header.
MissingFileIs404 ==
    (/\ req.route = "video"
     /\ req.resolved
     /\ ~HasHttpPrefix(req.videoPath)
     /\ PathJoin(req.videoPath) \notin DOMAIN disk) =>
        /\ phase = "done"
        /\ res.status = 404
        /\ res.statusWrites = 1
        /\ res.ended
        /\ res.body = <<>>
        /\ "Content-Length" \notin DOMAIN res.headers
        /\ "createReadStream" \notin fsCalls
        /\ stream.state = "none"

\* C7 witness: a request with a Range header for a file that is not there has
\* been answered
MissingFileWitness ==
    /\ req.route = "video"
    /\ req.hasRange
    /\ req.videoPath = MissingVideo
    /\ res.status = 404
    /\ fsCalls = {"existsSync"}

\* C8: serving a video request leaves the persisted catalog (animes, trending,
\* schedule, the set and contents of the episode files) as it was before the
\* request, also when the anime id has no episode file yet.
VideoRouteLeavesCatalogUnchanged ==
    req.route = "video" => Catalog = before

\* the episode list of the request's anime before the request
EpisodesBefore ==
    IF GetEpisodesFile(ParseInt(req.id)) \in DOMAIN before.episodeFiles
    THEN before.episodeFiles[GetEpisodesFile(ParseInt(req.id))]
    ELSE <<>>

\* the reason a lookup that distinguishes the three cases gives
ExpectedNotFoundReason ==
    IF FindAnimeIndex(before.animes, ParseInt(req.id)) = 0
    THEN "Anime not found"
    ELSE IF FindEpisodeIndex(EpisodesBefore, ParseInt(req.episode)) = 0
    THEN "Episode not found"
    ELSE "Video source not found"

\* C9: resolving a video source yields the source or a not-found result whose
\* reason tells apart a missing anime, a missing episode and a missing server
\* slot, each answered 404.
NotFoundReasonsDistinguished ==
    (req.route = "video" /\ ~req.resolved) =>
        /\ res.status = 404
        /\ res.error = ExpectedNotFoundReason

\* C10: every request to the video route ends in exactly one outcome among
\* redirect, 200, 206 and failure (404, 400, 500): the status is written at
\* most once and no request is left without a completed response.
EveryRequestCompletes ==
    req.route = "video" =>
        /\ res.statusWrites <= 1
        /\ phase \in {"done", "hung"} =>
              /\ res.statusWrites = 1
              /\ res.status \in {200, 206, 302, 404, 400, 500}
              /\ res.ended

\* the write requests on the animes file and on the episode files
WriteNext ==
    \/ PostAnimeRequest(MaxRecords)
    \/ PostEpisodeRequest(MaxRecords)
    \/ BatchEpisodesRequest(MaxRecords)
    \/ NextRequest

WriteSpec == StoreInit /\ [][WriteNext]_vars

(***************************************************************************)
(* Properties of the read stream's file handle.                            *)
(***************************************************************************)
\* the read stream holds an open file descriptor
HandleOpen == stream.state \in {"flowing", "paused"}

\* C11: the file handle opened for a request is eventually released on every
\* exit path, also when the client disconnects while the file is streamed
\* (200 or 206); no request leaves a file handle open forever.
FileHandleEventuallyReleased == HandleOpen ~> ~HandleOpen

(***************************************************************************)
(* Properties of the document store.                                       *)
(***************************************************************************)
\* the episode list in the file of the anime with this id; none without file
EpisodesOf(files, animeId) ==
    IF GetEpisodesFile(animeId) \in DOMAIN files
    THEN files[GetEpisodesFile(animeId)]
    ELSE <<>>

\* the request in progress succeeded on this route
Succeeded(route, code) == req.route = route /\ res.status = code

\* no two elements of the list have the same value of key
Distinct(list, key(_)) ==
    \A i, j \in 1..Len(list) : i # j => key(list[i]) # key(list[j])

DeleteIsAllOrNothing ==
    req.route = "deleteAnime" =>
        LET animeId == ParseInt(req.id)
        IN /\ res.status = 200 =>
                /\ animes = Splice(before.animes,
                                   FindAnimeIndex(before.animes, animeId))
                /\ GetEpisodesFile(animeId) \notin DOMAIN episodeFiles
                /\ IndexOf(trending.manualTrending, animeId) = 0
                /\ \A i \in 1..Len(schedule) :
                        schedule[i].animeId # animeId.v
           /\ res.status \in {404, 500} => Catalog = before

\* C14: after any sequence of create, update and delete requests on animes
\* no two stored anime records have the same id, and the id returned by
\* POST /api/animes is greater than every id stored before the request.
AnimeIdsAreUniqueAndFresh ==
    /\ Distinct(animes, LAMBDA a : a.id)
    /\ Succeeded("createAnime", 201) =>
            \A i \in 1..Len(before.animes) :
                res.body[1].id > before.animes[i].id

\* C15: manualTrending contains no duplicate ids, every id in it is the id
\* of a stored anime, and an id is in manualTrending exactly when that
\* anime's stored isTrending flag is true.
ManualTrendingMatchesFlags ==
    LET manual == trending.manualTrending
    IN /\ Distinct(manual, LAMBDA id : id)
       /\ \A i \in 1..Len(manual) :
              \E k \in 1..Len(animes) : animes[k].id = manual[i]
       /\ \A k \in 1..Len(animes) :
              animes[k].isTrending <=>
                  \E i \in 1..Len(manual) : manual[i] = animes[k].id

\* C16: an anime's episode list holds at most one record per episodeNumber,
\* the anime's stored currentEpisode equals the number of records in the
\* list and its stored episodes count is at least that number; a
\* POST /api/animes/:id/episodes for an episodeNumber already present
\* answers 400 and changes nothing.
EpisodeListsAreConsistent ==
    /\ \A k \in 1..Len(animes) :
            LET list == EpisodesOf(episodeFiles, Num(animes[k].id))
            IN /\ Distinct(list, LAMBDA ep : ep.episodeNumber)
               /\ animes[k].currentEpisode = Len(list)
               /\ animes[k].episodes >= Len(list)
    /\ (/\ req.route = "addEpisode"
        /\ FindAnimeIndex(before.animes, ParseInt(req.id)) # 0
        /\ \E i \in 1..Len(EpisodesBefore) :
                EpisodesBefore[i].episodeNumber = ParseInt(req.episode)) =>
            /\ res.status = 400
            /\ Catalog = before

\* C17: schedule entries have pairwise distinct ids, no two entries share
\* the same (animeId, dayOfWeek) pair, and every entry's animeId is the id
\* of a stored anime; a POST /api/schedule that answers 400 or 404 leaves
\* the schedule unchanged.
ScheduleIsConsistent ==
    /\ Distinct(schedule, LAMBDA item : item.id)
    /\ Distinct(schedule, LAMBDA item : <<item.animeId, item.dayOfWeek>>)
    /\ \A i \in 1..Len(schedule) :
            \E k \in 1..Len(animes) : animes[k].id = schedule[i].animeId
    /\ (req.route = "addSchedule" /\ res.status \in {400, 404}) =>
            schedule = before.schedule

GetHandlers == {"getAnimes", "getAnimeById", "searchAnimes", "notFound"}

\* text contains T without regard to case
ContainsIgnoringCase(text, T) ==
    \E i \in 0..(Len(text) - Len(T)) :
        \A k \in 1..Len(T) : LowerChar(text[i + k]) = LowerChar(T[k])

\* the title, the synopsis or some genre of the anime contains T
TextMatches(anime, T) ==
    \/ anime.title.has /\ ContainsIgnoringCase(anime.title.v, T)
    \/ anime.synopsis.has /\ ContainsIgnoringCase(anime.synopsis.v, T)
    \/ /\ anime.genres.has
       /\ \E g \in 1..Len(anime.genres.v) :
             ContainsIgnoringCase(anime.genres.v[g], T)

\* C18: GET /api/animes/search?q=T is answered by the search handler, with
\* exactly the stored animes whose title, synopsis or some genre contains T
\* without regard to case (all of them when T is empty), and never by the
\* handler of GET /api/animes/:id.
SearchIsAnsweredBySearchHandler ==
    (/\ phase = "done"
     /\ req.route \in GetHandlers
     /\ req.path = <<ApiSegment, AnimesSegment, SearchSegment>>
     /\ req.q.has) =>
        /\ req.route = "searchAnimes"
        /\ res.status = 200
        /\ res.body = <<IF req.q.v = <<>> THEN animes
                        ELSE SelectSeq(animes,
                                LAMBDA anime : TextMatches(anime, req.q.v))>>

=============================================================================
